---- MODULE Spec2Model ----
(***************************************************************************)
(* Model of the movie dashboard of src/app.py: three sliders and a reset   *)
(* button per browser session, the two Dash callbacks reset_filters and    *)
(* update_table_and_graph, the two MongoDB collections they read, and the  *)
(* process-wide state they share (default_values, numpy's global random    *)
(* generator).                                                             *)
(*                                                                         *)
(* Numbers: runtimes, vote counts and vote averages are the integers the   *)
(* sliders can stop at.  Jittered plot coordinates are kept in hundredths  *)
(* (x100), so that value + 0.02*n and value + 0.3*n are exact integers.    *)
(***************************************************************************)
EXTENDS Integers, Sequences, FiniteSets, TLC

VARIABLES
    environ,              \* os.environ's ADAPTABLE_TRUST_PROXY_DEPTH after load_dotenv
    ADAPTABLE_TRUST_PROXY_DEPTH,  \* module global, app.py:18
    x_for,                \* the x_for of the ProxyFix wrapped around server.wsgi_app
    default_values,       \* module global, app.py:49
    coll,                 \* db.movies, app.py:25
    reduced_coll,         \* db.reduced_movies, app.py:26
    rng,                  \* position of numpy's global random stream
    vote_count_slider,    \* per session: the slider's value property
    vote_average_slider,  \* per session: <<low, high>>
    runtime_slider,       \* per session: <<low, high>>
    n_clicks,             \* per session: the reset button's n_clicks
    pending,              \* per session: a callback is due with the current slider values
    figure,               \* per session: scatterplot.figure
    data,                 \* per session: dtable.data
    last_call             \* per session: what the latest update_table_and_graph did

vars == <<environ, ADAPTABLE_TRUST_PROXY_DEPTH, x_for, default_values, coll, reduced_coll, rng, vote_count_slider,
          vote_average_slider, runtime_slider, n_clicks, pending, figure,
          data, last_call>>

----------------------------------------------------------------------------
(* Bounds of the model *)

\* number of reset clicks followed per session
MaxClicks == 2

\* number of positions of the random stream that are told apart
RngPeriod == 3

Sessions == {"s1", "s2"}

None == "None"

----------------------------------------------------------------------------
(* Start-up: the environment and the proxy middleware.  A string is the    *)
(* sequence of its characters.                                             *)

Unset == <<"unset">>

\* os.getenv(name, default)
Getenv(value, default) == IF value = Unset THEN default ELSE value

Digits == <<"0", "1", "2", "3", "4", "5", "6", "7", "8", "9">>

DigitValue(ch) == (CHOOSE i \in DOMAIN Digits : Digits[i] = ch) - 1

RECURSIVE Decimal(_)
Decimal(str) ==
    IF Len(str) = 0 THEN 0
    ELSE 10 * Decimal(SubSeq(str, 1, Len(str) - 1)) + DigitValue(str[Len(str)])

\* int(str) of an optionally signed decimal numeral
ParseInt(str) ==
    IF str[1] = "-" THEN 0 - Decimal(Tail(str))
    ELSE IF str[1] = "+" THEN Decimal(Tail(str))
    ELSE Decimal(str)

\* the middleware trusting the outermost hop only
TrustedHopsFixed(depth) == 1

\* x_for = 1 + int(ADAPTABLE_TRUST_PROXY_DEPTH)
TrustedHops(depth) == 1 + ParseInt(depth)

\* values of the variable a deployment may set
Environments == {Unset, <<"0">>, <<"2">>, <<"1", "0">>, <<"+", "3">>}

----------------------------------------------------------------------------
(* The database *)

Doc(id, title, year, runtime, votes, average) ==
    ("_id" :> id) @@
    [movie_title |-> title, year_released |-> year, runtime |-> runtime,
     vote_count |-> votes, vote_average |-> average,
     genres |-> "g", production_countries |-> "c"]

\* A catalogue with documents inside the default range, on each of its
\* edges, and outside it on each side the sliders can reach.
Catalogue ==
    << Doc(1, "A", 1999, 90, 200, 7),
       Doc(2, "B", 2001, 60, 50, 0),
       Doc(3, "C", 2010, 280, 1000, 10),
       Doc(4, "D", 1985, 50, 500, 6),
       Doc(5, "E", 1962, 290, 80, 5),
       Doc(6, "F", 2020, 120, 10, 8) >>

Reverse(s) == [i \in 1..Len(s) |-> s[Len(s) + 1 - i]]

InDefaultRange(d) ==
    /\ d.vote_count >= 50
    /\ d.vote_average >= 0 /\ d.vote_average <= 10
    /\ d.runtime >= 60 /\ d.runtime <= 280

\* The stored view: the documents of movies inside the default bounds.
ReducedView(movies) == SelectSeq(movies, InDefaultRange)

----------------------------------------------------------------------------
(* pymongo: collection.find(query, projection) *)

Compare(op, value, bound) ==
    CASE op = "$gte" -> value >= bound
      [] op = "$lte" -> value <= bound
      [] op = "$gt"  -> value > bound
      [] op = "$lt"  -> value < bound

Matches(d, query) ==
    \A f \in DOMAIN query :
        /\ f \in DOMAIN d
        /\ \A op \in DOMAIN query[f] : Compare(op, d[f], query[f][op])

\* a projection of zeros excludes the fields it names
Project(d, projection) ==
    [f \in (DOMAIN d) \ {g \in DOMAIN projection : projection[g] = 0} |-> d[f]]

Find(collection, query, projection) ==
    LET hit(d) == Matches(d, query)
        found == SelectSeq(collection, hit)
    IN  [i \in 1..Len(found) |-> Project(found[i], projection)]

----------------------------------------------------------------------------
(* collections.OrderedDict: a sequence of <<key, value>> in insertion order *)

Get(od, key) == od[CHOOSE i \in DOMAIN od : od[i][1] = key][2]

Values(od) == [i \in DOMAIN od |-> od[i][2]]

DefaultValues ==
    << <<"min_vote_count", 50>>,
       <<"min_vote_average", 0>>,
       <<"max_vote_average", 10>>,
       <<"min_runtime", 60>>,
       <<"max_runtime", 280>> >>

----------------------------------------------------------------------------
(* The sliders: the values they are constructed with, and a choice of the  *)
(* stops a user can drag them to (each inside the slider's min..max and on *)
(* its step).                                                              *)

VoteCountSliderValue == Get(default_values, "min_vote_count")

VoteAverageSliderValue ==
    <<Get(default_values, "min_vote_average"), Get(default_values, "max_vote_average")>>

RuntimeSliderValue ==
    <<Get(default_values, "min_runtime"), Get(default_values, "max_runtime")>>

\* min=0, max=1000, step=5
VoteCountStops == {0, 50, 1000}

\* min=0, max=10, step=0.1; a range slider keeps low <= high
VoteAverageStops == {<<0, 10>>, <<5, 10>>, <<0, 0>>}

\* marks 0..500, step=10; a range slider keeps low <= high
RuntimeStops == {<<60, 280>>, <<50, 280>>, <<60, 290>>, <<120, 280>>, <<0, 500>>}

----------------------------------------------------------------------------
(* numpy.random.randn on the process-wide generator: n samples read from   *)
(* the stream at the generator's position, which moves on by n.  Samples   *)
(* are whole numbers of standard-deviation units in -2..2.                 *)

Sample(i) == ((2 * i + 1) % 5) - 2

Randn(state, n) == [i \in 1..n |-> Sample((state + i) % RngPeriod)]

Advance(state, n) == (state + n) % RngPeriod

----------------------------------------------------------------------------
(* pandas.DataFrame over a list of records *)

DataFrame(records) ==
    [columns |-> IF Len(records) = 0 THEN {} ELSE DOMAIN records[1],
     rows    |-> records]

Column(df, name) == [i \in DOMAIN df.rows |-> df.rows[i][name]]

\* df[name] = values
SetColumn(df, name, values) ==
    [columns |-> df.columns \cup {name},
     rows    |-> [i \in DOMAIN df.rows |-> (name :> values[i]) @@ df.rows[i]]]

----------------------------------------------------------------------------
(* plotly.express.scatter and Figure.update_layout *)

HoverData ==
    [movie_title |-> TRUE, year_released |-> TRUE, runtime |-> TRUE,
     runtime_jitter |-> FALSE, vote_average |-> TRUE, vote_average_jitter |-> FALSE]

Shown(hover_data) == {c \in DOMAIN hover_data : hover_data[c]}

Scatter(df, x, y, hover_name, hover_data) ==
    [points |-> [i \in DOMAIN df.rows |->
                    [x |-> df.rows[i][x],
                     y |-> df.rows[i][y],
                     hover_name |-> df.rows[i][hover_name],
                     hover |-> [c \in Shown(hover_data) |-> df.rows[i][c]]]],
     xaxis_title |-> x,
     yaxis_title |-> y]

UpdateLayout(fig, xaxis_title, yaxis_title) ==
    [fig EXCEPT !.xaxis_title = xaxis_title, !.yaxis_title = yaxis_title]

----------------------------------------------------------------------------
(* update_table_and_graph, step by step *)

\* the conditional without its vote-count test
UseReducedNoVoteCount(min_vote_count, min_vote_average, max_vote_average, min_runtime, max_runtime) ==
    /\ min_runtime >= Get(default_values, "min_runtime")
    /\ max_runtime <= Get(default_values, "max_runtime")
    /\ min_vote_average >= Get(default_values, "min_vote_average")
    /\ max_vote_average <= Get(default_values, "max_vote_average")

\* the conditional with strict comparisons
UseReducedStrict(min_vote_count, min_vote_average, max_vote_average, min_runtime, max_runtime) ==
    /\ min_runtime > Get(default_values, "min_runtime")
    /\ max_runtime < Get(default_values, "max_runtime")
    /\ min_vote_count > Get(default_values, "min_vote_count")
    /\ min_vote_average > Get(default_values, "min_vote_average")
    /\ max_vote_average < Get(default_values, "max_vote_average")

\* the conditional with the upper runtime bound exclusive
UseReducedBelowMax(min_vote_count, min_vote_average, max_vote_average, min_runtime, max_runtime) ==
    /\ min_runtime >= Get(default_values, "min_runtime")
    /\ max_runtime < Get(default_values, "max_runtime")
    /\ min_vote_count >= Get(default_values, "min_vote_count")
    /\ min_vote_average >= Get(default_values, "min_vote_average")
    /\ max_vote_average <= Get(default_values, "max_vote_average")

\* the conditional that picks the collection
UseReduced(min_vote_count, min_vote_average, max_vote_average, min_runtime, max_runtime) ==
    /\ min_runtime >= Get(default_values, "min_runtime")
    /\ max_runtime <= Get(default_values, "max_runtime")
    /\ min_vote_count >= Get(default_values, "min_vote_count")
    /\ min_vote_average >= Get(default_values, "min_vote_average")
    /\ max_vote_average <= Get(default_values, "max_vote_average")

\* the query with exclusive runtime bounds
QueryExclusive(min_vote_count, min_vote_average, max_vote_average, min_runtime, max_runtime) ==
    [runtime      |-> ("$gt" :> min_runtime) @@ ("$lt" :> max_runtime),
     vote_count   |-> ("$gte" :> min_vote_count),
     vote_average |-> ("$gte" :> min_vote_average) @@ ("$lte" :> max_vote_average)]

\* the query document built from the bounds
Query(min_vote_count, min_vote_average, max_vote_average, min_runtime, max_runtime) ==
    [runtime      |-> ("$gte" :> min_runtime) @@ ("$lte" :> max_runtime),
     vote_count   |-> ("$gte" :> min_vote_count),
     vote_average |-> ("$gte" :> min_vote_average) @@ ("$lte" :> max_vote_average)]

\* a projection that forgets genres
ProjectionKeepingGenres == ("_id" :> 0) @@ [production_countries |-> 0]

Projection == ("_id" :> 0) @@ [genres |-> 0, production_countries |-> 0]

\* the two jitter columns, in hundredths: value + 0.02 * randn, value + 0.3 * randn
AddJitter(movie_data_sampled, state) ==
    LET n  == Len(movie_data_sampled.rows)
        va == Column(movie_data_sampled, "vote_average")
        n1 == Randn(state, n)
        d1 == SetColumn(movie_data_sampled, "vote_average_jitter",
                        [i \in 1..n |-> 100 * va[i] + 2 * n1[i]])
        rt == Column(d1, "runtime")
        n2 == Randn(Advance(state, n), n)
    IN  SetColumn(d1, "runtime_jitter", [i \in 1..n |-> 100 * rt[i] + 30 * n2[i]])

MakeFigure(movie_data_sampled) ==
    UpdateLayout(
        Scatter(movie_data_sampled, "runtime_jitter", "vote_average_jitter",
                "movie_title", HoverData),
        "Runtime (in minutes)", "Vote average")

\* the table fed from the frame that carries the jitter columns
TableDataFromFrame(query_result_list, movie_data_sampled) == movie_data_sampled.rows

\* the second value returned: the rows handed to the table
TableData(query_result_list, movie_data_sampled) == query_result_list

----------------------------------------------------------------------------
(* The state after the module is loaded and each session has opened the    *)
(* page: sliders at their constructed values, the first call of            *)
(* update_table_and_graph due (reset_filters has prevent_initial_call).    *)

Start(env) ==
    /\ environ = env
    /\ ADAPTABLE_TRUST_PROXY_DEPTH = Getenv(env, <<"0">>)
    /\ x_for = TrustedHops(Getenv(env, <<"0">>))
    /\ default_values = DefaultValues
    /\ coll = Catalogue
    /\ reduced_coll \in {ReducedView(Catalogue), Reverse(ReducedView(Catalogue))}
    /\ rng \in 0..(RngPeriod - 1)
    /\ vote_count_slider = [s \in Sessions |-> Get(DefaultValues, "min_vote_count")]
    /\ vote_average_slider = [s \in Sessions |->
          <<Get(DefaultValues, "min_vote_average"), Get(DefaultValues, "max_vote_average")>>]
    /\ runtime_slider = [s \in Sessions |->
          <<Get(DefaultValues, "min_runtime"), Get(DefaultValues, "max_runtime")>>]
    /\ n_clicks = [s \in Sessions |-> 0]
    /\ pending = [s \in Sessions |-> TRUE]
    /\ figure = [s \in Sessions |-> None]
    /\ data = [s \in Sessions |-> None]
    /\ last_call = [s \in Sessions |-> [status |-> "not called"]]

\* a deployment that leaves the proxy depth unset
Init == Start(Unset)

\* a deployment behind any of the proxy depths
InitDeployed == \E env \in Environments : Start(env)

start_up == <<environ, ADAPTABLE_TRUST_PROXY_DEPTH, x_for>>

----------------------------------------------------------------------------
(* The callbacks *)

\* reset_filters with the two ends of the runtime range exchanged
ResetValuesSwapped ==
    LET v == Values(default_values)
    IN  <<v[1], <<v[2], v[3]>>, <<v[5], v[4]>>>>

\* what reset_filters returns
ResetValues ==
    LET v == Values(default_values)
    IN  <<v[1], <<v[2], v[3]>>, <<v[4], v[5]>>>>

\* a reset that also stores the vote-count slider's position as the default
reset_filters_storing(s) ==
    /\ n_clicks[s] < MaxClicks
    /\ n_clicks' = [n_clicks EXCEPT ![s] = @ + 1]
    /\ default_values' = [default_values EXCEPT ![1] = <<"min_vote_count", vote_count_slider[s]>>]
    /\ vote_count_slider' = [vote_count_slider EXCEPT ![s] = ResetValues[1]]
    /\ vote_average_slider' = [vote_average_slider EXCEPT ![s] = ResetValues[2]]
    /\ runtime_slider' = [runtime_slider EXCEPT ![s] = ResetValues[3]]
    /\ pending' = [pending EXCEPT ![s] = TRUE]
    /\ UNCHANGED <<start_up, coll, reduced_coll, rng, figure, data, last_call>>

\* A click on Reset: n_clicks goes up, reset_filters runs and its three
\* outputs are written to the sliders, whose change makes a call of
\* update_table_and_graph due.
reset_filters(s) ==
    /\ n_clicks[s] < MaxClicks
    /\ n_clicks' = [n_clicks EXCEPT ![s] = @ + 1]
    /\ vote_count_slider' = [vote_count_slider EXCEPT ![s] = ResetValues[1]]
    /\ vote_average_slider' = [vote_average_slider EXCEPT ![s] = ResetValues[2]]
    /\ runtime_slider' = [runtime_slider EXCEPT ![s] = ResetValues[3]]
    /\ pending' = [pending EXCEPT ![s] = TRUE]
    /\ UNCHANGED <<start_up, default_values, coll, reduced_coll, rng, figure, data, last_call>>

\* update_table_and_graph with the slider values of session s: those the
\* sliders hold when a call is due (page load, reset), else those a user
\* has just dragged a slider to.  Reading a column of a frame built from no
\* records raises KeyError, and a call that raises leaves the outputs as
\* they were.
update_table_and_graph(s, stops) ==
    \E min_vote_count \in stops[1], vote_averages \in stops[2], runtimes \in stops[3] :
        /\ pending[s] =>
              /\ min_vote_count = vote_count_slider[s]
              /\ vote_averages = vote_average_slider[s]
              /\ runtimes = runtime_slider[s]
        /\ \E reduced \in {UseReduced(min_vote_count, vote_averages[1], vote_averages[2],
                                      runtimes[1], runtimes[2])} :
           \E query_result_list \in
                 {Find(IF reduced THEN reduced_coll ELSE coll,
                       Query(min_vote_count, vote_averages[1], vote_averages[2],
                             runtimes[1], runtimes[2]),
                       Projection)} :
           \E movie_data_sampled \in {DataFrame(query_result_list)} :
           \E raises \in {"vote_average" \notin movie_data_sampled.columns} :
               /\ vote_count_slider' = [vote_count_slider EXCEPT ![s] = min_vote_count]
               /\ vote_average_slider' = [vote_average_slider EXCEPT ![s] = vote_averages]
               /\ runtime_slider' = [runtime_slider EXCEPT ![s] = runtimes]
               /\ pending' = [pending EXCEPT ![s] = FALSE]
               /\ last_call' = [last_call EXCEPT ![s] =
                     [args       |-> <<min_vote_count, vote_averages, runtimes>>,
                      collection |-> IF reduced THEN "reduced_movies" ELSE "movies",
                      found      |-> query_result_list,
                      status     |-> IF raises THEN "KeyError" ELSE "ok"]]
               /\ IF raises
                  THEN UNCHANGED <<rng, figure, data>>
                  ELSE \E jittered \in {AddJitter(movie_data_sampled, rng)} :
                          /\ rng' = Advance(rng, 2 * Len(query_result_list))
                          /\ figure' = [figure EXCEPT ![s] = MakeFigure(jittered)]
                          /\ data' = [data EXCEPT ![s] =
                                         TableData(query_result_list, jittered)]
               /\ UNCHANGED <<start_up, default_values, coll, reduced_coll, n_clicks>>

\* One user at the sliders; the other session has the page open and idle.
Next ==
    \/ reset_filters("s1")
    \/ update_table_and_graph("s1", <<VoteCountStops, VoteAverageStops, RuntimeStops>>)

Spec == Init /\ [][Next]_vars

FewStops == <<{0, 50}, {<<0, 10>>}, {<<60, 280>>, <<50, 280>>, <<120, 280>>}>>

\* Every session at its sliders, callbacks interleaved, over fewer stops.
NextSessions ==
    \E s \in Sessions :
        \/ reset_filters(s)
        \/ update_table_and_graph(s, FewStops)

SpecSessions == Init /\ [][NextSessions]_vars

\* One user, fewer stops, any deployment.
NextDeployed ==
    \/ reset_filters("s1")
    \/ update_table_and_graph("s1", FewStops)

SpecDeployed == InitDeployed /\ [][NextDeployed]_vars

\* the call that is due in session s, on the values its sliders hold
due_call(s) ==
    /\ pending[s]
    /\ update_table_and_graph(s, <<{vote_count_slider[s]}, {vote_average_slider[s]},
                                   {runtime_slider[s]}>>)

\* One user; every call that is due (page load, reset) is eventually run.
FairSpec == Spec /\ WF_vars(due_call("s1"))

----------------------------------------------------------------------------
(* Properties *)

Range(seq) == {seq[i] : i \in DOMAIN seq}

Called(s) == last_call[s].status # "not called"

Returned(s) == Called(s) /\ last_call[s].status = "ok"

Selected(s) == IF last_call[s].collection = "reduced_movies" THEN reduced_coll ELSE coll

\* the documents of a collection inside the bounds of a call, read off the bounds
Inside(collection, args) ==
    {d \in Range(collection) :
        /\ args[3][1] <= d.runtime /\ d.runtime <= args[3][2]
        /\ d.vote_count >= args[1]
        /\ args[2][1] <= d.vote_average /\ d.vote_average <= args[2][2]}

Stripped(docs) == {Project(d, Projection) : d \in docs}

\* C1: with reduced_movies holding exactly the documents of movies inside
\* the default bounds, whenever a call selects the reduced collection the
\* rows it returns are the set of rows the same bounds find in the full
\* collection.
C1_ReducedSameAsFull ==
    /\ Range(reduced_coll) = {d \in Range(coll) : InDefaultRange(d)}
    /\ \A s \in Sessions :
          (Called(s) /\ last_call[s].collection = "reduced_movies") =>
              LET a == last_call[s].args
                  full == Find(coll, Query(a[1], a[2][1], a[2][2], a[3][1], a[3][2]), Projection)
              IN  /\ Range(last_call[s].found) = Range(full)
                  /\ Returned(s) => Range(data[s]) = Range(full)

\* a call on the reduced collection, stored in another order than movies,
\* returned several rows while movies holds documents outside the view
C1_Witness ==
    \E s \in Sessions :
        /\ Returned(s)
        /\ last_call[s].collection = "reduced_movies"
        /\ Len(data[s]) >= 2
        /\ Len(coll) > Len(reduced_coll)
        /\ LET a == last_call[s].args
           IN  data[s] # Find(coll, Query(a[1], a[2][1], a[2][2], a[3][1], a[3][2]), Projection)

\* C2: a call reads the reduced collection exactly when min_runtime >= 60,
\* max_runtime <= 280, min_vote_count >= 50, min_vote_average >= 0 and
\* max_vote_average <= 10; otherwise it reads the full collection.
C2_ReducedIffWithinDefaults ==
    \A s \in Sessions :
        Called(s) =>
            LET a == last_call[s].args
                within == /\ a[3][1] >= 60 /\ a[3][2] <= 280
                          /\ a[1] >= 50
                          /\ a[2][1] >= 0 /\ a[2][2] <= 10
            IN  /\ last_call[s].collection \in {"reduced_movies", "movies"}
                /\ (last_call[s].collection = "reduced_movies") <=> within

\* a call with bounds equal to the defaults read the reduced collection
C2_Witness ==
    \E s \in Sessions :
        /\ Called(s)
        /\ n_clicks[s] > 0
        /\ last_call[s].args = <<50, <<0, 10>>, <<60, 280>>>>
        /\ last_call[s].collection = "reduced_movies"

\* C3: the rows a call finds, and returns to the table, are exactly the
\* documents of the selected collection with min_runtime <= runtime <=
\* max_runtime, vote_count >= min_vote_count and min_vote_average <=
\* vote_average <= max_vote_average, each once.
C3_RowsAreTheMatches ==
    \A s \in Sessions :
        Called(s) =>
            LET matches == Stripped(Inside(Selected(s), last_call[s].args))
            IN  /\ Range(last_call[s].found) = matches
                /\ Len(last_call[s].found) = Cardinality(matches)
                /\ Returned(s) => data[s] = last_call[s].found

\* a call returned some documents of its collection and left others out,
\* one of those returned sitting on the lower runtime bound
C3_Witness ==
    \E s \in Sessions :
        /\ Returned(s)
        /\ Len(data[s]) < Len(Selected(s))
        /\ \E i \in DOMAIN data[s] : data[s][i].runtime = last_call[s].args[3][1]
        /\ \E d \in Range(Selected(s)) : d.vote_count < last_call[s].args[1]

\* C4: every click on Reset, whatever the sliders hold and however often
\* the button was clicked before, leaves the vote-count slider at 50, the
\* vote-average slider at [0, 10] and the runtime slider at [60, 280], the
\* values the sliders are constructed with; a reset after a reset changes
\* no slider.
C4_ResetRestoresDefaults ==
    [][\A s \in Sessions :
          n_clicks'[s] # n_clicks[s] =>
              /\ vote_count_slider'[s] = 50
              /\ vote_average_slider'[s] = <<0, 10>>
              /\ runtime_slider'[s] = <<60, 280>>
              /\ vote_count_slider'[s] = VoteCountSliderValue
              /\ vote_average_slider'[s] = VoteAverageSliderValue
              /\ runtime_slider'[s] = RuntimeSliderValue
              /\ (n_clicks[s] > 0 /\ pending[s]) =>
                    /\ vote_count_slider'[s] = vote_count_slider[s]
                    /\ vote_average_slider'[s] = vote_average_slider[s]
                    /\ runtime_slider'[s] = runtime_slider[s]]_vars

\* the button was clicked twice, the second time on sliders the first click
\* had reset from other positions, and the sliders hold the defaults
C4_Witness ==
    \E s \in Sessions :
        /\ n_clicks[s] = 2
        /\ pending[s]
        /\ Called(s)
        /\ last_call[s].args[1] # 50
        /\ last_call[s].args[2] # <<0, 10>>
        /\ last_call[s].args[3] # <<60, 280>>
        /\ vote_count_slider[s] = 50
        /\ vote_average_slider[s] = <<0, 10>>
        /\ runtime_slider[s] = <<60, 280>>

\* C5: every call completes and returns a figure and the table rows; a
\* call whose bounds no document matches returns an empty table and a
\* figure without points.
C5_AlwaysReturns ==
    \A s \in Sessions :
        Called(s) =>
            /\ last_call[s].status = "ok"
            /\ last_call[s].found = <<>> =>
                  /\ data[s] = <<>>
                  /\ figure[s].points = <<>>

JitterColumns == {"runtime_jitter", "vote_average_jitter"}

\* C7: the rows returned are the rows as queried, without jitter columns
\* and with the runtime and vote_average stored in the collection; the
\* figure has one point per row, at the row's runtime and vote_average
\* moved by the jitter, and its hover data shows the row's own runtime and
\* vote_average and neither jitter column; the collections are untouched.
C7_JitterOnlyInPlot ==
    /\ coll = Catalogue
    /\ \A s \in Sessions :
          Returned(s) =>
              /\ data[s] = last_call[s].found
              /\ Len(figure[s].points) = Len(data[s])
              /\ \A i \in DOMAIN data[s] :
                    LET row == data[s][i]
                        pt  == figure[s].points[i]
                    IN  /\ DOMAIN row \cap JitterColumns = {}
                        /\ \E d \in Range(Selected(s)) :
                              /\ d.movie_title = row.movie_title
                              /\ d.runtime = row.runtime
                              /\ d.vote_average = row.vote_average
                        /\ DOMAIN pt.hover \cap JitterColumns = {}
                        /\ {"runtime", "vote_average"} \subseteq DOMAIN pt.hover
                        /\ pt.hover.runtime = row.runtime
                        /\ pt.hover.vote_average = row.vote_average
                        /\ pt.hover_name = row.movie_title
                        /\ \E k \in -2..2 : pt.x = 100 * row.runtime + 30 * k
                        /\ \E k \in -2..2 : pt.y = 100 * row.vote_average + 2 * k

\* a call returned several rows and plotted one of them away from its
\* stored runtime and vote_average
C7_Witness ==
    \E s \in Sessions :
        /\ Returned(s)
        /\ Len(data[s]) >= 2
        /\ \E i \in DOMAIN data[s] :
              /\ figure[s].points[i].x # 100 * data[s][i].runtime
              /\ figure[s].points[i].y # 100 * data[s][i].vote_average

AtDefaults(s) ==
    /\ ~pending[s]
    /\ Called(s)
    /\ last_call[s].args = <<50, <<0, 10>>, <<60, 280>>>>
    /\ last_call[s].collection = "reduced_movies"

\* C8: once a call is due, after a click on Reset from any slider state or
\* after the page load, update_table_and_graph eventually runs with the
\* bounds (50, [0, 10], [60, 280]) and reads the reduced collection.
C8_ResetLeadsToReducedRun ==
    /\ pending["s1"] ~> AtDefaults("s1")
    /\ [][n_clicks'["s1"] # n_clicks["s1"] => pending'["s1"]]_vars

\* the run that followed a second click on Reset has read the reduced
\* collection with the default bounds
C8_Witness ==
    /\ n_clicks["s1"] = 2
    /\ AtDefaults("s1")
    /\ Len(data["s1"]) > 0

Removed == {"_id", "genres", "production_countries"}

\* C9: every row returned for the table is a stored document of the
\* selected collection without _id, genres and production_countries and
\* with every other field as stored.
C9_RowsAreProjectedDocuments ==
    \A s \in Sessions :
        Returned(s) =>
            \A i \in DOMAIN data[s] :
                \E d \in Range(Selected(s)) :
                    /\ DOMAIN data[s][i] = (DOMAIN d) \ Removed
                    /\ \A f \in DOMAIN data[s][i] : data[s][i][f] = d[f]

\* rows were returned from the full collection, whose documents carry the
\* three fields
C9_Witness ==
    \E s \in Sessions :
        /\ Returned(s)
        /\ last_call[s].collection = "movies"
        /\ Len(data[s]) >= 2
        /\ \A d \in Range(coll) : Removed \subseteq DOMAIN d

\* C10: the number of trusted X-Forwarded-For hops is one more than the
\* integer the variable spells, and 1 when it is unset; no callback
\* changes it.
C10_TrustedHops ==
    /\ environ = Unset => x_for = 1
    /\ environ = <<"0">> => x_for = 1
    /\ environ = <<"2">> => x_for = 3
    /\ environ = <<"1", "0">> => x_for = 11
    /\ environ = <<"+", "3">> => x_for = 4
    /\ environ \in Environments
    /\ ADAPTABLE_TRUST_PROXY_DEPTH = (IF environ = Unset THEN <<"0">> ELSE environ)

\* behind ten proxies, after a reset and a call
C10_Witness ==
    /\ environ = <<"1", "0">>
    /\ x_for = 11
    /\ n_clicks["s1"] > 0
    /\ Returned("s1")

====
